---- MODULE Spec2Model ----
(***************************************************************************)
(* Model of geo.py: a Streamlit script that reads a GEDCOM file, extracts  *)
(* birth date/place pairs (parse_gedcom), resolves places to coordinates   *)
(* (geocode_dataframe), and expands the resolved table into cumulative     *)
(* animation frames (create_cumulative_data).                              *)
(*                                                                         *)
(* Text that the code scans (date texts, place names) is a sequence of     *)
(* one-character strings.  A table (DataFrame) is a sequence of records.   *)
(***************************************************************************)
EXTENDS Integers, Sequences, FiniteSets, TLC

VARIABLES
    date_str,        \* get_year_from_date: the argument
    year_result,     \* get_year_from_date: the returned value
    year_pc,         \* get_year_from_date: "idle" | "called" | "returned"
    agg_df,          \* create_cumulative_data: the argument df
    step,            \* create_cumulative_data: the argument step
    min_year,        \* create_cumulative_data: local min_year
    max_year,        \* create_cumulative_data: local max_year
    years,           \* create_cumulative_data: the range, as a sequence
    year_idx,        \* create_cumulative_data: position of the for loop in years
    cumulative_list, \* create_cumulative_data: list of frames (step_data tables)
    agg_result,      \* create_cumulative_data: the returned table
    agg_pc,          \* "idle" | "called" | "loop" | "returned" | "raised"
    file,            \* the uploaded file, as the parser sees it
    pc,              \* position of the script run (lines 157-212)
    elem_idx,        \* parse_gedcom: position of the for loop in the root elements
    data,            \* parse_gedcom: the list of emitted records
    df,              \* the script's df (parse_gedcom's result)
    unique_places,   \* geocode_dataframe: df['Paikka'].unique()
    place_coords,    \* geocode_dataframe: dict place -> (lat, lon)
    geo_idx,         \* geocode_dataframe: position of the for loop
    progress,        \* geocode_dataframe: what the progress widgets show
    calls,           \* the calls made to the geocoding service, in order
    df_geo,          \* the script's df_geo (geocode_dataframe's result)
    clicked,         \* whether st.button returned True in this run
    messages         \* the messages the script has shown, in order

year_vars == <<date_str, year_result, year_pc>>
agg_vars == <<agg_df, step, min_year, max_year, years, year_idx,
              cumulative_list, agg_result, agg_pc>>
parse_vars == <<elem_idx, data>>
geo_vars == <<unique_places, place_coords, geo_idx, progress, calls>>
ui_vars == <<file, pc, df, df_geo, clicked, messages>>
pipe_vars == <<parse_vars, geo_vars, ui_vars>>
vars == <<year_vars, agg_vars, pipe_vars>>

(***************************************************************************)
(* Bounds                                                                  *)
(***************************************************************************)
MaxDateLen == 5
MaxRows == 3
MaxStep == 5
MaxElems == 3

(***************************************************************************)
(* Python values                                                           *)
(***************************************************************************)
\* Python's None where an integer is expected (years are never negative).
None == -1

Digits == <<"0", "1", "2", "3", "4", "5", "6", "7", "8", "9">>

\* \d of the regular expression
IsDigit(c) == \E d \in 1..Len(Digits) : Digits[d] = c

DigitVal(c) == (CHOOSE d \in 1..Len(Digits) : Digits[d] = c) - 1

\* int(match.group(0)) for a match of four digits starting at position i
IntOfMatch(s, i) ==
    DigitVal(s[i]) * 1000 + DigitVal(s[i + 1]) * 100
        + DigitVal(s[i + 2]) * 10 + DigitVal(s[i + 3])

\* the pattern \d{4} tried at position i
MatchAt(s, i) ==
    /\ i + 3 <= Len(s)
    /\ \A k \in 0..3 : IsDigit(s[i + k])

\* the same pattern tried at the start of the text only
SearchFromStartOnly(s, i) ==
    IF i = 1 /\ MatchAt(s, 1) THEN 1 ELSE 0

\* re.search(r'\d{4}', s): scan start positions left to right; 0 is "no match"
RECURSIVE Search(_, _)
Search(s, i) ==
    IF i + 3 > Len(s) THEN 0
    ELSE IF MatchAt(s, i) THEN i
    ELSE Search(s, i + 1)

get_year_from_date(s) ==
    IF s = <<>> THEN None
    ELSE LET m == Search(s, 1)
         IN  IF m # 0 THEN IntOfMatch(s, m) ELSE None

YearIdle ==
    /\ date_str = <<>>
    /\ year_result = None
    /\ year_pc = "idle"

(***************************************************************************)
(* Date texts                                                              *)
(***************************************************************************)
DateAlphabet == {"0", "1", "8", "A", " "}

BoundedDates == UNION {[1..n -> DateAlphabet] : n \in 0..MaxDateLen}

ABT1873 == <<"A", "B", "T", " ", "1", "8", "7", "3">>
MAY1873 == <<"1", "2", " ", "M", "A", "Y", " ", "1", "8", "7", "3">>
JAN1850 == <<"3", " ", "J", "A", "N", " ", "1", "8", "5", "0">>
NoDigits == <<"n", "o", " ", "d", "i", "g", "i", "t", "s">>

ExampleDates == {ABT1873, MAY1873, JAN1850, NoDigits}

(***************************************************************************)
(* Tables                                                                  *)
(***************************************************************************)
\* the four decimal digits of a year, as date text
YearText(y) ==
    <<Digits[((y \div 1000) % 10) + 1], Digits[((y \div 100) % 10) + 1],
      Digits[((y \div 10) % 10) + 1], Digits[(y % 10) + 1]>>

\* element.get_name() of the k-th individual: (first, last), either may be empty
NameTuples ==
    <<<<"Aino", "Salo">>, <<"Eino", "">>, <<"", "Salo">>, <<"Otto", "Aho">>,
      <<"Urho", "">>, <<"Yrjo", "Salo">>>>

NameTuple(k) == NameTuples[((k - 1) % Len(NameTuples)) + 1]

\* f"{first} {last}".strip() for parts without outer blanks
FullName(name_tuple) ==
    IF name_tuple[1] = "" THEN name_tuple[2]
    ELSE IF name_tuple[2] = "" THEN name_tuple[1]
    ELSE name_tuple[1] \o " " \o name_tuple[2]

HelsinkiText == <<"H", "e", "l", "s", "i", "n", "k", "i">>

\* a resolved row (a GeoRecord): row k of a table, born in year y
GeoRow(k, y) ==
    [Nimi |-> FullName(NameTuple(k)), Syntymaaika |-> YearText(y), Vuosi |-> y,
     Paikka |-> HelsinkiText, lat |-> 60, lon |-> 25]

AggYears == 1872..1881

\* the resolved tables create_cumulative_data is called with directly
GeoTables ==
    UNION {{[k \in 1..n |-> GeoRow(k, ys[k])] : ys \in [1..n -> AggYears]} :
              n \in 0..MaxRows}

(***************************************************************************)
(* create_cumulative_data                                                  *)
(***************************************************************************)
\* Series.min() / Series.max() of the Vuosi column of a non-empty table
MinVuosi(table) ==
    CHOOSE y \in {table[k].Vuosi : k \in 1..Len(table)} :
        \A k \in 1..Len(table) : y <= table[k].Vuosi

MaxVuosi(table) ==
    CHOOSE y \in {table[k].Vuosi : k \in 1..Len(table)} :
        \A k \in 1..Len(table) : y >= table[k].Vuosi

\* range(start, stop, st) with the comparison of a closed interval
RECURSIVE RangeClosed(_, _, _)
RangeClosed(start, stop, st) ==
    IF start > stop THEN <<>>
    ELSE <<start>> \o RangeClosed(start + st, stop, st)

\* range(start, stop, st) for st > 0: start, start + st, ... below stop
RECURSIVE Range(_, _, _)
Range(start, stop, st) ==
    IF start >= stop THEN <<>>
    ELSE <<start>> \o Range(start + st, stop, st)

\* the range with stop = max_year
FrameYearsUnpadded(lo, hi, st) == Range(lo, hi, st)

\* years = range(min_year, max_year + step, step)
FrameYears(lo, hi, st) == Range(lo, hi + st, st)

\* the mask with a strict comparison
MaskStrict(row, year) == row.Vuosi < year

\* mask = df['Vuosi'] <= year
Mask(row, year) == row.Vuosi <= year

\* df.loc[mask, [...]].copy() with the column Animaatiovuosi = year added
StepData(table, year) ==
    LET sel == SelectSeq(table, LAMBDA row : Mask(row, year))
    IN  [k \in 1..Len(sel) |->
            [Nimi |-> sel[k].Nimi, lat |-> sel[k].lat, lon |-> sel[k].lon,
             Vuosi |-> sel[k].Vuosi, Syntymaaika |-> sel[k].Syntymaaika,
             Paikka |-> sel[k].Paikka, Animaatiovuosi |-> year]]

\* pd.concat(frames, ignore_index=True)
RECURSIVE Concat(_)
Concat(frames) ==
    IF frames = <<>> THEN <<>>
    ELSE Head(frames) \o Concat(Tail(frames))

AggIdle ==
    /\ agg_df = <<>>
    /\ step = 0
    /\ min_year = None
    /\ max_year = None
    /\ years = <<>>
    /\ year_idx = 0
    /\ cumulative_list = <<>>
    /\ agg_result = <<>>
    /\ agg_pc = "idle"

\* Lines 132-136.  On an empty table Series.min() is NaN and int(NaN) raises
\* ValueError (a table with no Vuosi column raises KeyError at the same place).
AggStart ==
    /\ agg_pc = "called"
    /\ IF Len(agg_df) = 0
       THEN /\ agg_pc' = "raised"
            /\ UNCHANGED <<min_year, max_year, years, year_idx>>
       ELSE /\ min_year' = MinVuosi(agg_df)
            /\ max_year' = MaxVuosi(agg_df)
            /\ years' = FrameYears(MinVuosi(agg_df), MaxVuosi(agg_df), step)
            /\ year_idx' = 1
            /\ agg_pc' = "loop"
    /\ UNCHANGED <<agg_df, step, cumulative_list, agg_result>>

\* Lines 140-148: one iteration of the for loop
AggFrame ==
    /\ agg_pc = "loop"
    /\ year_idx <= Len(years)
    /\ LET step_data == StepData(agg_df, years[year_idx])
       IN  cumulative_list' =
               IF step_data # <<>> THEN Append(cumulative_list, step_data)
               ELSE cumulative_list
    /\ year_idx' = year_idx + 1
    /\ UNCHANGED <<agg_df, step, min_year, max_year, years, agg_result, agg_pc>>

\* Lines 150-153
AggReturn ==
    /\ agg_pc = "loop"
    /\ year_idx > Len(years)
    /\ agg_result' =
           IF cumulative_list = <<>> THEN agg_df ELSE Concat(cumulative_list)
    /\ agg_pc' = "returned"
    /\ UNCHANGED <<agg_df, step, min_year, max_year, years, year_idx,
                   cumulative_list>>

(***************************************************************************)
(* The uploaded file                                                       *)
(***************************************************************************)
Y1858 == <<"1", "8", "5", "8">>

OuluText == <<"O", "u", "l", "u">>
OuluLowerText == <<"o", "u", "l", "u">>
IiSuomiText == <<"I", "i", ",", " ", "S", "U", "O", "M", "I">>

\* what element.get_birth_data() gives as date and as place; <<>> is ""
Birth(date, place) == [tag |-> "INDI", error |-> FALSE, date |-> date, place |-> place]

\* a root element: another record (family, header, ...), an individual whose
\* name or birth data cannot be read (the accessors raise), an individual with
\* no birth event, with a birth date and no place, with a place and a date
\* without a year, or with the date and place texts of its birth event
ElementKinds ==
    {[tag |-> "FAM", error |-> FALSE, date |-> <<>>, place |-> <<>>],
     [tag |-> "INDI", error |-> TRUE, date |-> <<>>, place |-> <<>>],
     Birth(<<>>, <<>>),
     Birth(JAN1850, <<>>),
     Birth(NoDigits, OuluText),
     Birth(JAN1850, OuluText),
     Birth(Y1858, OuluText),
     Birth(Y1858, OuluLowerText),
     Birth(JAN1850, IiSuomiText)}

Element(kind, k) ==
    [tag |-> kind.tag, error |-> kind.error, date |-> kind.date,
     place |-> kind.place, name |-> NameTuple(k)]

NoFile == [present |-> FALSE, raises |-> FALSE, elements |-> <<>>]

\* a file the parser cannot read (Parser.parse_file raises)
BadFile == [present |-> TRUE, raises |-> TRUE, elements |-> <<>>]

Files ==
    UNION {{[present |-> TRUE, raises |-> FALSE,
             elements |-> [k \in 1..n |-> Element(kinds[k], k)]] :
               kinds \in [1..n -> ElementKinds]} : n \in 0..MaxElems}

(***************************************************************************)
(* parse_gedcom                                                            *)
(***************************************************************************)
\* "if birth_year": None and 0 are false
Truthy(year) == year # None /\ year # 0

\* lines 55-73 for an individual whose accessors do not raise
Emitted(element) ==
    IF element.place # <<>>
    THEN LET birth_year == get_year_from_date(element.date)
         IN  IF Truthy(birth_year) /\ element.place # <<>>
             THEN <<[Nimi |-> FullName(element.name), Syntymaaika |-> element.date,
                     Vuosi |-> birth_year, Paikka |-> element.place]>>
             ELSE <<>>
    ELSE <<>>

\* an exception in one individual ends the loop
AbortLoop(idx, total) == total + 1

\* lines 74-75: except Exception: continue
AfterIndividualError(idx, total) == idx + 1

\* Lines 29-50.  The decode fallbacks and the temporary file do not raise; an
\* exception of parse_file passes the finally clause (lines 77-82), which has no
\* except clause, and leaves parse_gedcom and the script run.
ParseOpen ==
    /\ pc = "start"
    /\ file.present
    /\ IF file.raises
       THEN pc' = "crashed" /\ UNCHANGED <<elem_idx, data>>
       ELSE pc' = "parsing" /\ elem_idx' = 1 /\ data' = <<>>
    /\ UNCHANGED <<file, df, df_geo, clicked, messages, geo_vars, agg_vars,
                   year_vars>>

\* Line 159: no file uploaded, nothing runs
NoUpload ==
    /\ pc = "start"
    /\ ~file.present
    /\ pc' = "done"
    /\ UNCHANGED <<file, df, df_geo, clicked, messages, parse_vars, geo_vars,
                   agg_vars, year_vars>>

\* Lines 52-75: one iteration of the for loop
ParseElement ==
    /\ pc = "parsing"
    /\ elem_idx <= Len(file.elements)
    /\ LET element == file.elements[elem_idx]
       IN  IF element.tag # "INDI"
           THEN elem_idx' = elem_idx + 1 /\ data' = data
           ELSE IF element.error
           THEN /\ elem_idx' = AfterIndividualError(elem_idx, Len(file.elements))
                /\ data' = data
           ELSE /\ elem_idx' = elem_idx + 1
                /\ data' = data \o Emitted(element)
    /\ UNCHANGED <<ui_vars, geo_vars, agg_vars, year_vars>>

\* Lines 77-84
ParseReturn ==
    /\ pc = "parsing"
    /\ elem_idx > Len(file.elements)
    /\ df' = data
    /\ pc' = "parsed"
    /\ UNCHANGED <<file, df_geo, clicked, messages, parse_vars, geo_vars, agg_vars,
                   year_vars>>

(***************************************************************************)
(* geocode_dataframe                                                       *)
(***************************************************************************)
UpperCase ==
    <<"A", "B", "C", "D", "E", "F", "G", "H", "I", "J", "K", "L", "M",
      "N", "O", "P", "Q", "R", "S", "T", "U", "V", "W", "X", "Y", "Z">>
LowerCase ==
    <<"a", "b", "c", "d", "e", "f", "g", "h", "i", "j", "k", "l", "m",
      "n", "o", "p", "q", "r", "s", "t", "u", "v", "w", "x", "y", "z">>

LowerChar(c) ==
    IF \E k \in 1..Len(UpperCase) : UpperCase[k] = c
    THEN LowerCase[CHOOSE k \in 1..Len(UpperCase) : UpperCase[k] = c]
    ELSE c

\* str.lower()
Lower(text) == [k \in 1..Len(text) |-> LowerChar(text[k])]

\* needle in text
Contains(text, needle) ==
    \E k \in 1..(Len(text) - Len(needle) + 1) :
        SubSeq(text, k, k + Len(needle) - 1) = needle

FinlandLower == <<"f", "i", "n", "l", "a", "n", "d">>
SuomiLower == <<"s", "u", "o", "m", "i">>
FinlandSuffix == <<",", " ", "F", "i", "n", "l", "a", "n", "d">>

\* lines 104-106
Query(place) ==
    IF ~Contains(Lower(place), FinlandLower) /\ ~Contains(Lower(place), SuomiLower)
    THEN place \o FinlandSuffix
    ELSE place

Column(table) == [k \in 1..Len(table) |-> table[k].Paikka]

\* the distinct values, each compared after lower()
RECURSIVE UniqueIgnoringCase(_)
UniqueIgnoringCase(seq) ==
    IF seq = <<>> THEN <<>>
    ELSE LET rest == UniqueIgnoringCase(SubSeq(seq, 1, Len(seq) - 1))
             last == seq[Len(seq)]
         IN  IF \E k \in 1..Len(rest) : Lower(rest[k]) = Lower(last) THEN rest
             ELSE Append(rest, last)

\* Series.unique(): the distinct values in order of first appearance
RECURSIVE Unique(_)
Unique(seq) ==
    IF seq = <<>> THEN <<>>
    ELSE LET rest == Unique(SubSeq(seq, 1, Len(seq) - 1))
             last == seq[Len(seq)]
         IN  IF \E k \in 1..Len(rest) : rest[k] = last THEN rest
             ELSE Append(rest, last)

\* what one call geocode(query) can do: raise, return None, return a location
LookupOutcomes ==
    {[kind |-> "raise", latitude |-> None, longitude |-> None],
     [kind |-> "none", latitude |-> None, longitude |-> None],
     [kind |-> "found", latitude |-> 65, longitude |-> 25]}

\* lines 110-115: the dict entry for an outcome
Coords(outcome) ==
    IF outcome.kind = "found" THEN <<outcome.latitude, outcome.longitude>>
    ELSE <<None, None>>

\* an exception of the lookup ends the loop
AbortBatch(idx, total) == total + 1

\* lines 114-115: except Exception, then the next place
AfterLookupError(idx, total) == idx + 1

\* place_coords.get(x, (None, None))
CoordsOf(coords, place) ==
    IF place \in DOMAIN coords THEN coords[place] ELSE <<None, None>>

\* lines 120-121: the columns lat and lon added
WithCoords(table, coords) ==
    [k \in 1..Len(table) |->
        [Nimi |-> table[k].Nimi, Syntymaaika |-> table[k].Syntymaaika,
         Vuosi |-> table[k].Vuosi, Paikka |-> table[k].Paikka,
         lat |-> CoordsOf(coords, table[k].Paikka)[1],
         lon |-> CoordsOf(coords, table[k].Paikka)[2]]]

\* df.dropna(subset=['lat', 'lon'])
DropNa(table) ==
    SelectSeq(table, LAMBDA row : row.lat # None /\ row.lon # None)

\* Lines 88-96
GeocodeStart ==
    /\ pc = "geocode_called"
    /\ unique_places' = Unique(Column(df))
    /\ place_coords' = <<>>
    /\ geo_idx' = 1
    /\ progress' = <<0, Len(Unique(Column(df)))>>
    /\ pc' = "geocoding"
    /\ UNCHANGED <<file, df, df_geo, clicked, messages, calls, parse_vars,
                   agg_vars, year_vars>>

\* Lines 98-115: one iteration of the for loop
GeocodePlace ==
    /\ pc = "geocoding"
    /\ geo_idx <= Len(unique_places)
    /\ progress' = <<geo_idx, Len(unique_places)>>
    /\ LET place == unique_places[geo_idx]
       IN  IF place \notin DOMAIN place_coords
           THEN \E outcome \in LookupOutcomes :
                   /\ calls' = Append(calls, [place |-> place, query |-> Query(place),
                                              kind |-> outcome.kind])
                   /\ place_coords' = (place :> Coords(outcome)) @@ place_coords
                   /\ geo_idx' =
                          IF outcome.kind = "raise"
                          THEN AfterLookupError(geo_idx, Len(unique_places))
                          ELSE geo_idx + 1
           ELSE /\ geo_idx' = geo_idx + 1
                /\ UNCHANGED <<calls, place_coords>>
    /\ UNCHANGED <<unique_places, ui_vars, parse_vars, agg_vars, year_vars>>

\* Lines 117-123
GeocodeReturn ==
    /\ pc = "geocoding"
    /\ geo_idx > Len(unique_places)
    /\ progress' = <<>>
    /\ df' = WithCoords(df, place_coords)
    /\ df_geo' = DropNa(WithCoords(df, place_coords))
    /\ pc' = "geocoded"
    /\ UNCHANGED <<file, clicked, messages, unique_places, place_coords, geo_idx,
                   calls, parse_vars, agg_vars, year_vars>>

(***************************************************************************)
(* The script (lines 157-212)                                              *)
(***************************************************************************)
DefaultStep == 5
LargeStep == 10
LargeThreshold == 500

\* the test "df.empty" skipped
NeverEmpty(table) == FALSE

\* df.empty
Empty(table) == Len(table) = 0

\* the tables df_geo.sort_values("Vuosi") can give: the sort is not stable
SortValues(table) ==
    {sorted \in {[k \in 1..Len(table) |-> table[p[k]]] :
                    p \in Permutations(1..Len(table))} :
        \A k \in 1..(Len(sorted) - 1) : sorted[k].Vuosi <= sorted[k + 1].Vuosi}

\* Lines 161-168 up to the button
ShowParsed ==
    /\ pc = "parsed"
    /\ IF Empty(df)
       THEN /\ messages' = Append(messages, "error: no suitable data")
            /\ pc' = "done"
       ELSE /\ messages' = Append(messages, "success: individuals found")
            /\ pc' = "button"
    /\ UNCHANGED <<file, df, df_geo, clicked, parse_vars, geo_vars, agg_vars,
                   year_vars>>

\* Lines 168-170: the button is pressed or the run ends
Button ==
    /\ pc = "button"
    /\ \E pressed \in BOOLEAN :
           /\ clicked' = pressed
           /\ pc' = IF pressed THEN "geocode_called" ELSE "done"
    /\ UNCHANGED <<file, df, df_geo, messages, parse_vars, geo_vars, agg_vars,
                   year_vars>>

\* Lines 172-187 up to the call of create_cumulative_data
ShowGeocoded ==
    /\ pc = "geocoded"
    /\ IF Empty(df_geo)
       THEN /\ messages' = Append(messages, "warning: no coordinates")
            /\ pc' = "done"
            /\ UNCHANGED <<df_geo, agg_df, step, agg_pc>>
       ELSE /\ \E sorted \in SortValues(df_geo) :
                   /\ df_geo' = sorted
                   /\ agg_df' = sorted
            /\ step' = IF Len(df_geo) > LargeThreshold THEN LargeStep ELSE DefaultStep
            /\ messages' =
                   IF Len(df_geo) > LargeThreshold
                   THEN messages \o <<"info: preparing", "warning: large data">>
                   ELSE Append(messages, "info: preparing")
            /\ agg_pc' = "called"
            /\ pc' = "aggregating"
    /\ UNCHANGED <<file, df, clicked, parse_vars, geo_vars, min_year, max_year,
                   years, year_idx, cumulative_list, agg_result, year_vars>>

\* Lines 189-212: an exception of create_cumulative_data leaves the script run;
\* an exception of the plot is reported
ShowResult ==
    /\ pc = "aggregating"
    /\ agg_pc \in {"returned", "raised"}
    /\ IF agg_pc = "raised"
       THEN pc' = "crashed" /\ UNCHANGED messages
       ELSE /\ pc' = "done"
            /\ \E plotted \in BOOLEAN :
                   messages' =
                       IF plotted THEN Append(messages, "success: ready")
                       ELSE messages \o <<"success: ready", "error: plot failed">>
    /\ UNCHANGED <<file, df, df_geo, clicked, parse_vars, geo_vars, agg_vars,
                   year_vars>>

PipeIdle ==
    /\ file = NoFile
    /\ pc = "idle"
    /\ elem_idx = 0
    /\ data = <<>>
    /\ df = <<>>
    /\ unique_places = <<>>
    /\ place_coords = <<>>
    /\ geo_idx = 0
    /\ progress = <<>>
    /\ calls = <<>>
    /\ df_geo = <<>>
    /\ clicked = FALSE
    /\ messages = <<>>

Init ==
    /\ file \in Files \cup {BadFile, NoFile}
    /\ pc = "start"
    /\ elem_idx = 0
    /\ data = <<>>
    /\ df = <<>>
    /\ unique_places = <<>>
    /\ place_coords = <<>>
    /\ geo_idx = 0
    /\ progress = <<>>
    /\ calls = <<>>
    /\ df_geo = <<>>
    /\ clicked = FALSE
    /\ messages = <<>>
    /\ AggIdle
    /\ YearIdle

Next ==
    \/ NoUpload
    \/ ParseOpen
    \/ ParseElement
    \/ ParseReturn
    \/ ShowParsed
    \/ Button
    \/ GeocodeStart
    \/ GeocodePlace
    \/ GeocodeReturn
    \/ ShowGeocoded
    \/ AggStart /\ pc = "aggregating" /\ UNCHANGED <<year_vars, pipe_vars>>
    \/ AggFrame /\ pc = "aggregating" /\ UNCHANGED <<year_vars, pipe_vars>>
    \/ AggReturn /\ pc = "aggregating" /\ UNCHANGED <<year_vars, pipe_vars>>
    \/ ShowResult

Spec == Init /\ [][Next]_vars

(***************************************************************************)
(* The year extractor called on its own                                    *)
(***************************************************************************)
YearInit ==
    /\ date_str \in BoundedDates \cup ExampleDates
    /\ year_result = None
    /\ year_pc = "called"
    /\ AggIdle
    /\ PipeIdle

GetYear ==
    /\ year_pc = "called"
    /\ year_result' = get_year_from_date(date_str)
    /\ year_pc' = "returned"
    /\ UNCHANGED <<date_str, agg_vars, pipe_vars>>

YearNext == GetYear

SpecYear == YearInit /\ [][YearNext]_vars

(***************************************************************************)
(* The aggregator called on its own, with any table and any positive step  *)
(***************************************************************************)
AggInit ==
    /\ agg_df \in GeoTables
    /\ step \in 1..MaxStep
    /\ min_year = None
    /\ max_year = None
    /\ years = <<>>
    /\ year_idx = 0
    /\ cumulative_list = <<>>
    /\ agg_result = <<>>
    /\ agg_pc = "called"
    /\ YearIdle
    /\ PipeIdle

AggNext ==
    \/ AggStart /\ UNCHANGED <<year_vars, pipe_vars>>
    \/ AggFrame /\ UNCHANGED <<year_vars, pipe_vars>>
    \/ AggReturn /\ UNCHANGED <<year_vars, pipe_vars>>

SpecAgg == AggInit /\ [][AggNext]_vars

(***************************************************************************)
(* Properties of the script run (checked under Spec)                       *)
(***************************************************************************)
IndexSet(seq) == 1..Len(seq)

\* the distinct place strings of the records given to geocode_dataframe
DistinctPlaces == {data[k].Paikka : k \in IndexSet(data)}

CallsFor(place) == {k \in IndexSet(calls) : calls[k].place = place}

GeocodeReturned == pc = "geocoded"

\* C5: when geocode_dataframe returns, the lookup has been called once for each
\* distinct place string of the records (compared exactly, so "Oulu" and
\* "oulu" are two places), whatever the calls did; no place is ever looked up twice.
C5_OneLookupPerPlace ==
    /\ \A p \in DistinctPlaces : Cardinality(CallsFor(p)) <= 1
    /\ GeocodeReturned =>
           /\ Len(calls) = Cardinality(DistinctPlaces)
           /\ \A p \in DistinctPlaces : Cardinality(CallsFor(p)) = 1

\* three records, two places that differ in case only, one lookup raised
C5_Witness ==
    /\ GeocodeReturned
    /\ Len(data) = 3
    /\ DistinctPlaces = {OuluText, OuluLowerText}
    /\ Len(calls) = 2
    /\ \E k \in IndexSet(calls) : calls[k].kind = "raise"

Resolved(place) == \E k \in CallsFor(place) : calls[k].kind = "found"

WithoutCoords(table) ==
    [k \in IndexSet(table) |->
        [Nimi |-> table[k].Nimi, Syntymaaika |-> table[k].Syntymaaika,
         Vuosi |-> table[k].Vuosi, Paikka |-> table[k].Paikka]]

\* C6: a lookup that raises or finds nothing records absent coordinates for its
\* place and the later places are still looked up; the returned table is the
\* input records whose place was found, in their input order, with coordinates.
C6_FailuresNotFatal ==
    GeocodeReturned =>
        /\ \A p \in DistinctPlaces : CallsFor(p) # {}
        /\ \A k \in IndexSet(calls) :
               calls[k].kind # "found" => place_coords[calls[k].place] = <<None, None>>
        /\ WithoutCoords(df_geo) = SelectSeq(data, LAMBDA row : Resolved(row.Paikka))
        /\ \A k \in IndexSet(df_geo) : df_geo[k].lat # None /\ df_geo[k].lon # None

\* the first lookup raised, a later one found its place, and rows were dropped
C6_Witness ==
    /\ GeocodeReturned
    /\ Len(calls) >= 2
    /\ calls[1].kind = "raise"
    /\ calls[Len(calls)].kind = "found"
    /\ df_geo # <<>>
    /\ Len(df_geo) < Len(data)

\* C7: when the parse step raises, parse_gedcom returns an empty result and
\* the run does not end in an exception.
C7_ParseFailureGivesEmpty ==
    (file.raises /\ pc # "start") => (pc # "crashed" /\ df = <<>>)

Emits(element) ==
    /\ element.tag = "INDI"
    /\ ~element.error
    /\ element.place # <<>>
    /\ get_year_from_date(element.date) \notin {None, 0}

ExpectedRecords ==
    LET kept == SelectSeq(file.elements, Emits)
    IN  [k \in IndexSet(kept) |->
            [Nimi |-> FullName(kept[k].name), Syntymaaika |-> kept[k].date,
             Vuosi |-> get_year_from_date(kept[k].date), Paikka |-> kept[k].place]]

\* C8: an individual whose processing raises is skipped and nothing else: the
\* result holds the records of all other individuals with a year and a place,
\* those after the failing one included, in file order.
C8_ErrorSkipsOneIndividual ==
    pc = "parsed" => df = ExpectedRecords

\* a failing individual between two that give a record
C8_Witness ==
    /\ pc = "parsed"
    /\ Len(file.elements) = 3
    /\ file.elements[2].error
    /\ Len(df) = 2

Shown(message) == \E k \in IndexSet(messages) : messages[k] = message

\* C10: geocode_dataframe runs only after parse_gedcom gave a non-empty table
\* and the button was pressed; create_cumulative_data runs only on a non-empty
\* resolved table whose records all have a birth year, so it never raises on
\* empty input; an empty extraction or resolution ends the run with a message.
C10_GuardedOrder ==
    /\ pc \in {"geocode_called", "geocoding", "geocoded"} =>
           data # <<>> /\ clicked /\ Shown("success: individuals found")
    /\ agg_pc # "idle" =>
           /\ agg_df # <<>>
           /\ clicked
           /\ \A k \in IndexSet(agg_df) :
                  /\ agg_df[k].Vuosi > 0
                  /\ agg_df[k].lat # None
                  /\ Resolved(agg_df[k].Paikka)
    /\ agg_pc # "raised"
    /\ (pc = "done" /\ file.present /\ data = <<>>) =>
           /\ messages = <<"error: no suitable data">>
           /\ calls = <<>>
           /\ agg_pc = "idle"
    /\ (pc = "done" /\ clicked /\ df_geo = <<>>) =>
           /\ messages[Len(messages)] = "warning: no coordinates"
           /\ agg_pc = "idle"

\* the aggregator has computed its year range on a table that lost a record
C10_Witness ==
    /\ pc = "aggregating"
    /\ agg_pc = "loop"
    /\ min_year < max_year
    /\ Len(agg_df) < Len(data)

(***************************************************************************)
(* Properties of get_year_from_date (checked under SpecYear)               *)
(***************************************************************************)
DecimalDigits == {"0", "1", "2", "3", "4", "5", "6", "7", "8", "9"}

DecimalValue(c) ==
    CASE c = "0" -> 0 [] c = "1" -> 1 [] c = "2" -> 2 [] c = "3" -> 3
      [] c = "4" -> 4 [] c = "5" -> 5 [] c = "6" -> 6 [] c = "7" -> 7
      [] c = "8" -> 8 [] c = "9" -> 9

\* the number whose four decimal digits are s[i..i+3]
WindowValue(s, i) ==
    ((DecimalValue(s[i]) * 10 + DecimalValue(s[i + 1])) * 10
        + DecimalValue(s[i + 2])) * 10 + DecimalValue(s[i + 3])

\* start positions of four consecutive digits, inside a longer run or not
WindowStarts(s) ==
    {i \in 1..Len(s) : i + 3 <= Len(s) /\ \A k \in 0..3 : s[i + k] \in DecimalDigits}

\* start positions of a maximal digit run whose length is exactly four
ExactRunStarts(s) ==
    {i \in WindowStarts(s) :
        /\ i = 1 \/ s[i - 1] \notin DecimalDigits
        /\ i + 4 > Len(s) \/ s[i + 4] \notin DecimalDigits}

FirstOf(S) == CHOOSE i \in S : \A j \in S : i <= j

\* C9 as stated: the result is the first digit run of exactly four digits, as
\* an integer, and none when the text has no such run (a longer run is no match).
C9_ExactRun ==
    year_pc = "returned" =>
        year_result =
            IF ExactRunStarts(date_str) = {} THEN None
            ELSE WindowValue(date_str, FirstOf(ExactRunStarts(date_str)))

\* C9 amended: the result is the integer value of the leftmost four consecutive
\* digits of the text, also when they are part of a longer digit run, and none
\* when the text has no four consecutive digits; "ABT 1873" and "12 MAY 1873"
\* give 1873, "" and "no digits" give none.
C9_FirstFourDigits ==
    year_pc = "returned" =>
        /\ year_result =
               IF WindowStarts(date_str) = {} THEN None
               ELSE WindowValue(date_str, FirstOf(WindowStarts(date_str)))
        /\ date_str \in {ABT1873, MAY1873} => year_result = 1873
        /\ date_str \in {<<>>, NoDigits} => year_result = None

\* a text whose first four digits come after other characters and lie in a
\* longer digit run has been converted
C9_Witness ==
    /\ year_pc = "returned"
    /\ date_str = <<"A", "1", "8", "0", "1">>
    /\ year_result = 1801

(***************************************************************************)
(* Properties of create_cumulative_data (checked under SpecAgg)            *)
(***************************************************************************)
\* a frame's row without its frame tag
Untag(row) ==
    [Nimi |-> row.Nimi, Syntymaaika |-> row.Syntymaaika, Vuosi |-> row.Vuosi,
     Paikka |-> row.Paikka, lat |-> row.lat, lon |-> row.lon]

Tags(table) == {table[k].Animaatiovuosi : k \in 1..Len(table)}

\* the records of the output tagged with frame year y
FrameMembers(y) ==
    {Untag(agg_result[k]) :
        k \in {j \in 1..Len(agg_result) : agg_result[j].Animaatiovuosi = y}}

InputUpTo(y) == {agg_df[k] : k \in {j \in 1..Len(agg_df) : agg_df[j].Vuosi <= y}}

InputVuosi == {agg_df[k].Vuosi : k \in 1..Len(agg_df)}

Lowest == CHOOSE y \in InputVuosi : \A z \in InputVuosi : y <= z

Highest == CHOOSE y \in InputVuosi : \A z \in InputVuosi : y >= z

\* the frame years in output order, one per frame
OutputYears == [k \in 1..Len(cumulative_list) |-> cumulative_list[k][1].Animaatiovuosi]

AggDone == agg_pc = "returned" /\ agg_df # <<>>

\* C1: the output of a non-empty table is made of frames, the frame tagged y
\* holds exactly the input records with Vuosi <= y, and so a frame's records
\* all appear in every frame tagged with a later year.
C1_Cumulative ==
    AggDone =>
        /\ cumulative_list # <<>>
        /\ agg_result = Concat(cumulative_list)
        /\ \A y \in Tags(agg_result) : FrameMembers(y) = InputUpTo(y)
        /\ \A y1, y2 \in Tags(agg_result) :
               y1 < y2 => FrameMembers(y1) \subseteq FrameMembers(y2)

\* a returned output with two frames of different sizes
C1_Witness ==
    /\ AggDone
    /\ \E y1, y2 \in Tags(agg_result) :
           y1 < y2 /\ FrameMembers(y1) # FrameMembers(y2) /\ FrameMembers(y1) # {}

\* C2: the last frame year is >= the maximum birth year, the last frame holds
\* every input record, and step 5 over 1872..1881 gives 1872, 1877, 1882.
C2_LastFrameCovers ==
    AggDone =>
        /\ OutputYears # <<>>
        /\ OutputYears[Len(OutputYears)] >= Highest
        /\ FrameMembers(OutputYears[Len(OutputYears)])
               = {agg_df[k] : k \in 1..Len(agg_df)}
        /\ (step = 5 /\ Lowest = 1872 /\ Highest = 1881)
               => OutputYears = <<1872, 1877, 1882>>

C2_Witness ==
    /\ AggDone
    /\ step = 5 /\ Lowest = 1872 /\ Highest = 1881
    /\ OutputYears = <<1872, 1877, 1882>>

Increasing(seq) == \A k \in 1..(Len(seq) - 1) : seq[k] < seq[k + 1]

SeqRange(seq) == {seq[k] : k \in 1..Len(seq)}

\* C3 as stated: the frame years are the terms of minY, minY + step, ... that
\* are <= maxY + step.
C3_InclusiveBound ==
    AggDone =>
        /\ Increasing(OutputYears)
        /\ SeqRange(OutputYears) =
               {y \in Lowest..(Highest + step) :
                   (y - Lowest) % step = 0 /\ y <= Highest + step}

\* C3 amended: the frame years are, in increasing order, exactly the terms of
\* minY, minY + step, minY + 2*step, ... that are < maxY + step (the bound is
\* exclusive: when maxY - minY is a multiple of step the last frame year is maxY).
C3_ExclusiveBound ==
    AggDone =>
        /\ Increasing(OutputYears)
        /\ SeqRange(OutputYears) =
               {y \in Lowest..(Highest + step) :
                   (y - Lowest) % step = 0 /\ y < Highest + step}

\* an output whose span is a multiple of the step: the last frame year is maxY
C3_Witness ==
    /\ AggDone
    /\ Highest > Lowest
    /\ (Highest - Lowest) % step = 0
    /\ OutputYears[Len(OutputYears)] = Highest

\* C4: called with an empty table, create_cumulative_data does not raise and
\* returns the table unchanged.
C4_EmptyIsNoOp ==
    (agg_df = <<>> /\ agg_pc \notin {"idle", "called"}) =>
        /\ agg_pc # "raised"
        /\ agg_pc = "returned" => agg_result = agg_df

====
